---- MODULE Spec2Model ----
(***************************************************************************)
(* Reconnecting WebSocket client core of workflow-rs                       *)
(* (websocket/src/client/native.rs, wasm.rs, options.rs).                  *)
(*                                                                         *)
(* One interface instance.  Its supervisor tasks, their dispatchers, the   *)
(* application (API calls, sends, dropped acks) and the peer (inbound      *)
(* frames, dial and write outcomes) are the processes of the model.        *)
(***************************************************************************)
EXTENDS Integers, Sequences, FiniteSets, TLC

(* ------------------------------ bounds -------------------------------- *)
MaxSup == 2        \* supervisor tasks that connect() may spawn
MaxCalls == 2      \* API calls: connect, close, disconnect, set_url
MaxSend == 1       \* items the application places on the sender channel
MaxFrames == 1     \* text/binary/ping/pong/close frames the peer delivers
MaxSessions == 2   \* successful dials
MaxHookOut == 1    \* messages the handshake hook pushes per session

(* ------------------------------ values -------------------------------- *)
NoUrl == "none"
InitialUrl == "ws://a"     \* the URL new() may be given
OtherUrl == "ws://b"       \* the URL of set_url() and of the connect() override
Strategies == {"Retry", "Fallback"}
Sup == 1..MaxSup
AckIds == 1..MaxSend
NoAck == 0
\* what ws_receiver.next() yields: Some(Ok(frame)) for the tungstenite::Message
\* variants (Text and Binary as "Data", Pong and Frame as "Pong"), and "End"
\* for Some(Err(_)) and None, which every match in the source treats alike
Pings == {"Ping x", "Ping y"}     \* Ping frames with different payloads
WireFrames == {"Data", "Close", "Pong"} \cup Pings
StreamEnds == {"End"}
NoFrame == "none"
\* ConnectOptions.url; block_async_connect and strategy are drawn once (options)
UrlOverrides == {NoUrl, OtherUrl}

VARIABLES
    adapter,            \* "native" (native.rs) or "wasm" (wasm.rs)
    settings_url,       \* Settings.url
    reconnect,          \* AtomicBool
    is_open,            \* AtomicBool
    handshake,          \* Options.handshake is Some
    receiver_channel,   \* every message published so far, oldest first
    sender_channel,     \* queued (Message, Ack) pairs, as ack ids (NoAck: None)
    ack_state,          \* per ack: "unused", "live", "dropped" (receiver dropped)
    ack_result,         \* per ack: the results delivered into it
    shutdown_request,   \* items queued on shutdown.request
    shutdown_response,  \* items queued on shutdown.response
    close_waiting,      \* close() calls blocked on shutdown.response.recv()
    pc,                 \* per supervisor task: where it is
    options,            \* block_async_connect and strategy of the ConnectOptions
    target_url,         \* per supervisor task: the captured target_url
    connect_trigger,    \* per supervisor task: the first-connect one-shot
    ws_in,              \* per supervisor task: frame ready on ws_receiver
    ws_closed,          \* per supervisor task: a Close frame was read
    hook_result,        \* per supervisor task: accept_rx ("none", "running", "Ok", "Err")
    hook_out,           \* per supervisor task: messages queued on sender_rx
    inner,              \* wasm: the Inner slot: 0 (None) or the task whose socket it holds
    event_channel,      \* wasm: events queued by the socket callbacks
    ready_state,        \* wasm: per socket, WebSocket.readyState
    callbacks,          \* wasm: per socket, whether its four callbacks are installed
    pong_out,           \* payloads of the Pong frames written to the transport
    drain_due,          \* history: live acks that were queued when disconnect() was called
    last_call,          \* the last API call and what it returned
    calls,              \* API calls made
    sent,               \* items placed on the sender channel
    frames,             \* frames delivered by the peer
    sessions            \* successful dials

vars == << adapter, inner, event_channel, ready_state, callbacks, drain_due, pong_out,
           settings_url, reconnect, is_open, handshake, receiver_channel,
           sender_channel, ack_state, ack_result, shutdown_request,
           shutdown_response, close_waiting, pc, options, target_url,
           connect_trigger, ws_in, ws_closed, hook_result, hook_out,
           last_call, calls, sent, frames, sessions >>

cfgVars == << adapter, handshake, options >>
webVars == << inner, event_channel, ready_state, callbacks >>
LiveQueued == {a \in AckIds : ack_state[a] = "live" /\ \E i \in 1..Len(sender_channel) :
                                                         sender_channel[i] = a}
appVars == << sender_channel, ack_state, ack_result, sent >>
shutVars == << shutdown_request, shutdown_response, close_waiting >>
taskVars == << pc, target_url, connect_trigger >>
wireVars == << ws_in, ws_closed, frames >>
hookVars == << hook_result, hook_out >>
callVars == << last_call, calls >>

(* WebSocketInterface::new *)
Init ==
    /\ adapter \in {"native", "wasm"}
    /\ inner = 0
    /\ event_channel = << >>
    /\ ready_state = [s \in Sup |-> "none"]
    /\ callbacks = [s \in Sup |-> FALSE]
    /\ drain_due = {}
    /\ pong_out = << >>
    /\ settings_url \in IF adapter = "native" THEN {NoUrl, InitialUrl} ELSE {InitialUrl}
    /\ reconnect = TRUE
    /\ is_open = FALSE
    /\ handshake \in BOOLEAN
    /\ receiver_channel = << >>
    /\ sender_channel = << >>
    /\ ack_state = [a \in AckIds |-> "unused"]
    /\ ack_result = [a \in AckIds |-> << >>]
    /\ shutdown_request = 0
    /\ shutdown_response = 0
    /\ close_waiting = 0
    /\ pc = [s \in Sup |-> "idle"]
    /\ options \in [block_async_connect : BOOLEAN,
                    strategy : IF adapter = "native" THEN Strategies ELSE {"Retry"}]
    /\ target_url = [s \in Sup |-> NoUrl]
    /\ connect_trigger = [s \in Sup |-> "none"]
    /\ ws_in = [s \in Sup |-> NoFrame]
    /\ ws_closed = [s \in Sup |-> FALSE]
    /\ hook_result = [s \in Sup |-> "none"]
    /\ hook_out = [s \in Sup |-> 0]
    /\ last_call = [op |-> "new", ret |-> "Ok"]
    /\ calls = 0
    /\ sent = 0
    /\ frames = 0
    /\ sessions = 0

(* --------------------------- the application --------------------------- *)

(* WebSocketInterface::set_url *)
SetUrl(u) ==
    /\ calls < MaxCalls
    /\ settings_url' = u
    /\ calls' = calls + 1
    /\ last_call' = [op |-> "set_url", ret |-> "Ok"]
    /\ UNCHANGED << reconnect, is_open, cfgVars, drain_due, pong_out, webVars, receiver_channel, appVars,
                    shutVars, taskVars, wireVars, hookVars, sessions >>

(* sender_channel.send((msg, ack)) by the application: without an ack, with
   one, or with one whose receiving end the application drops before the
   dispatcher gets to it *)
AppSend(kind) ==
    /\ sent < MaxSend
    /\ sent' = sent + 1
    /\ IF kind = "None"
         THEN /\ sender_channel' = Append(sender_channel, NoAck)
              /\ UNCHANGED ack_state
         ELSE /\ sender_channel' = Append(sender_channel, sent + 1)
              /\ ack_state' = [ack_state EXCEPT ![sent + 1] = kind]
    /\ UNCHANGED << settings_url, reconnect, is_open, cfgVars, drain_due, pong_out, webVars,
                    receiver_channel, ack_result, shutVars, taskVars, wireVars,
                    hookVars, callVars, sessions >>

(* ------------------------------ connect() ------------------------------ *)

(* native.rs:122  let target_url = this.url().clone().expect("missing URL") *)
MissingUrlPanics == settings_url = NoUrl

\* the guard of native.rs:123 left out
AlreadyConnected_NoGuard == FALSE

(* native.rs:123  if self.is_open.load(..) { return Err(AlreadyConnected) } *)
AlreadyConnected == is_open

(* native.rs:122  the URL every dial of this supervisor uses: read from the
   settings before the ConnectOptions override is applied *)
CapturedTargetUrl(o) == settings_url

(* native.rs:133-135  if let Some(url) = options.url { self.set_url(url) } *)
UrlAfterOverride(o) == IF o # NoUrl THEN o ELSE settings_url

Spawned == {s \in Sup : pc[s] # "idle"}
Alive == {s \in Sup : pc[s] \notin {"idle", "done", "panicked"}}

(* WebSocketInterface::connect, up to and including core::task::spawn *)
Connect(o) ==
    /\ adapter = "native"
    /\ calls < MaxCalls
    /\ calls' = calls + 1
    /\ UNCHANGED << is_open, cfgVars, drain_due, pong_out, webVars, receiver_channel, appVars, shutVars,
                    wireVars, hookVars, sessions >>
    /\ IF MissingUrlPanics
         THEN /\ last_call' = [op |-> "connect", ret |-> "panic"]
              /\ UNCHANGED << settings_url, reconnect, taskVars >>
         ELSE IF AlreadyConnected
         THEN /\ last_call' = [op |-> "connect", ret |-> "AlreadyConnected"]
              /\ UNCHANGED << settings_url, reconnect, taskVars >>
         ELSE /\ reconnect' = TRUE
              /\ settings_url' = UrlAfterOverride(o)
              /\ IF UrlAfterOverride(o) = NoUrl
                   THEN /\ last_call' = [op |-> "connect", ret |-> "MissingUrl"]
                        /\ UNCHANGED taskVars
                   ELSE /\ Cardinality(Spawned) < MaxSup
                        /\ LET s == Cardinality(Spawned) + 1 IN
                             /\ pc' = [pc EXCEPT ![s] = "dial"]
                             /\ target_url' =
                                  [target_url EXCEPT ![s] = CapturedTargetUrl(o)]
                             /\ connect_trigger' =
                                  [connect_trigger EXCEPT ![s] = "armed"]
                        /\ last_call' = [op |-> "connect", ret |-> "spawned"]

(* native.rs:231-237  what connect() has returned to the caller of task s *)
ConnectReturn(s) ==
    IF ~options.block_async_connect THEN "Ok(listener)"
    ELSE CASE connect_trigger[s] = "armed" -> "pending"
           [] connect_trigger[s] = "Ok" -> "Ok"
           [] connect_trigger[s] = "dropped" -> "Err(recv)"
           [] OTHER -> connect_trigger[s]

(* ------------------------ close(), disconnect() ------------------------ *)

(* native.rs:351-369  the body of close(): signal the dispatcher and wait *)
CloseBody ==
    IF is_open
      THEN /\ shutdown_request' = shutdown_request + 1
           /\ close_waiting' = close_waiting + 1
           /\ UNCHANGED shutdown_response
      ELSE UNCHANGED shutVars

(* WebSocketInterface::close *)
Close ==
    /\ adapter = "native"
    /\ calls < MaxCalls
    /\ calls' = calls + 1
    /\ last_call' = [op |-> "close", ret |-> IF is_open THEN "pending" ELSE "Ok"]
    /\ CloseBody
    /\ UNCHANGED << settings_url, reconnect, is_open, cfgVars, drain_due, pong_out, webVars, receiver_channel,
                    appVars, taskVars, wireVars, hookVars, sessions >>

(* WebSocketInterface::disconnect *)
Disconnect ==
    /\ adapter = "native"
    /\ calls < MaxCalls
    /\ calls' = calls + 1
    /\ last_call' = [op |-> "disconnect", ret |-> IF is_open THEN "pending" ELSE "Ok"]
    /\ reconnect' = FALSE
    /\ drain_due' = drain_due \cup LiveQueued
    /\ CloseBody
    /\ UNCHANGED << pong_out, settings_url, is_open, cfgVars, webVars, receiver_channel,
                    appVars, taskVars, wireVars, hookVars, sessions >>

(* native.rs:361-368  shutdown.response.receiver.recv() completes *)
CloseReturn ==
    /\ adapter = "native"
    /\ close_waiting > 0
    /\ shutdown_response > 0
    /\ close_waiting' = close_waiting - 1
    /\ shutdown_response' = shutdown_response - 1
    /\ UNCHANGED << settings_url, reconnect, is_open, cfgVars, drain_due, pong_out, webVars, receiver_channel,
                    appVars, shutdown_request, taskVars, wireVars, hookVars,
                    callVars, sessions >>

(* ------------------------- the supervisor task ------------------------- *)

(* the task ends: its connect_trigger, if never taken, is dropped with it *)
DropTrigger(s) ==
    IF connect_trigger[s] = "armed"
      THEN [connect_trigger EXCEPT ![s] = "dropped"]
      ELSE connect_trigger

(* native.rs:146-158  target_url resolves to no socket address: break *)
ResolveFail(s) ==
    /\ adapter = "native"
    /\ pc[s] = "dial"
    /\ pc' = [pc EXCEPT ![s] = "done"]
    /\ connect_trigger' = DropTrigger(s)
    /\ UNCHANGED << settings_url, reconnect, is_open, cfgVars, drain_due, pong_out, webVars,
                    receiver_channel, appVars, shutVars, target_url, wireVars,
                    hookVars, callVars, sessions >>

(* native.rs:181-191  Ok(Ok(stream)): is_open, the first-connect signal, then
   dispatcher(): split, handshake() (returns at once without a hook) and
   receiver_channel.send(Message::Open) *)
DialOk(s) ==
    /\ adapter = "native"
    /\ pc[s] = "dial"
    /\ sessions < MaxSessions
    /\ sessions' = sessions + 1
    /\ is_open' = TRUE
    /\ connect_trigger' = IF connect_trigger[s] = "armed"
                            THEN [connect_trigger EXCEPT ![s] = "Ok"]
                            ELSE connect_trigger
    /\ IF handshake
         THEN /\ pc' = [pc EXCEPT ![s] = "handshake"]
              /\ hook_result' = [hook_result EXCEPT ![s] = "running"]
              /\ UNCHANGED receiver_channel
         ELSE /\ pc' = [pc EXCEPT ![s] = "dispatch"]
              /\ receiver_channel' = Append(receiver_channel, "Open")
              /\ UNCHANGED hook_result
    /\ UNCHANGED << settings_url, reconnect, cfgVars, drain_due, pong_out, webVars, appVars, shutVars, target_url, wireVars, hook_out, callVars >>

\* the try_send of native.rs:202 and 213-217 left out
FallbackSignal_Silent(s, kind) == DropTrigger(s)

\* the connect_trigger.is_some() test of native.rs:201 and 212 left out
FallbackSignal_NoTake(s, kind) ==
    IF options.block_async_connect
      THEN [connect_trigger EXCEPT ![s] = kind]
      ELSE DropTrigger(s)

(* native.rs:201-204 and 212-219  under Fallback the error goes into the
   first-connect one-shot if connect() blocks on it and it was not taken *)
FallbackSignal(s, kind) ==
    IF options.block_async_connect /\ connect_trigger[s] = "armed"
      THEN [connect_trigger EXCEPT ![s] = kind]
      ELSE DropTrigger(s)

(* native.rs:198-222  Ok(Err(e)) and Err(_): the dial failed or timed out *)
DialFail(s, kind) ==
    /\ adapter = "native"
    /\ pc[s] = "dial"
    /\ IF options.strategy = "Fallback"
         THEN /\ pc' = [pc EXCEPT ![s] = "done"]
              /\ connect_trigger' = FallbackSignal(s, kind)
         ELSE /\ pc' = [pc EXCEPT ![s] = "sleep"]
              /\ UNCHANGED connect_trigger
    /\ UNCHANGED << settings_url, reconnect, is_open, cfgVars, drain_due, pong_out, webVars, receiver_channel,
                    appVars, shutVars, target_url, wireVars, hookVars,
                    callVars, sessions >>

(* native.rs:225-227  if !this.reconnect.load(..) { break }, reached after the
   dispatcher has returned or the retry sleep has elapsed *)
LoopCheck(s) ==
    /\ adapter = "native"
    /\ pc[s] \in {"sleep", "check"}
    /\ IF reconnect
         THEN /\ pc' = [pc EXCEPT ![s] = "dial"]
              /\ UNCHANGED connect_trigger
         ELSE /\ pc' = [pc EXCEPT ![s] = "done"]
              /\ connect_trigger' = DropTrigger(s)
    /\ UNCHANGED << settings_url, reconnect, is_open, cfgVars, drain_due, pong_out, webVars, receiver_channel,
                    appVars, shutVars, target_url, wireVars, hookVars,
                    callVars, sessions >>

(* ------------------------------ the peer ------------------------------- *)

(* the transport has something for ws_receiver.next(): a frame, or its end.
   After a Close frame the stream only ends. *)
Peer(s, f) ==
    /\ adapter = "native"
    /\ pc[s] \in {"handshake", "dispatch"}
    /\ ws_in[s] = NoFrame
    /\ ws_in' = [ws_in EXCEPT ![s] = f]
    /\ IF f \in WireFrames
         THEN /\ ~ws_closed[s]
              /\ frames < MaxFrames
              /\ frames' = frames + 1
         ELSE UNCHANGED frames
    /\ UNCHANGED << settings_url, reconnect, is_open, cfgVars, drain_due, pong_out, webVars, receiver_channel,
                    appVars, shutVars, taskVars, ws_closed, hookVars, callVars,
                    sessions >>

(* --------------------------- the dispatcher ---------------------------- *)

(* native.rs:191-195  dispatcher() has returned: is_open.store(false) *)
Exited(s) ==
    /\ pc' = [pc EXCEPT ![s] = "check"]
    /\ is_open' = FALSE
    /\ ws_in' = [ws_in EXCEPT ![s] = NoFrame]
    /\ ws_closed' = [ws_closed EXCEPT ![s] = FALSE]
    /\ hook_result' = [hook_result EXCEPT ![s] = "none"]
    /\ hook_out' = [hook_out EXCEPT ![s] = 0]

(* wasm.rs / native.rs handshake hook task: it pushes a message for the peer *)
HookPush(s) ==
    /\ pc[s] = "handshake"
    /\ hook_result[s] = "running"
    /\ hook_out[s] < MaxHookOut
    /\ hook_out' = [hook_out EXCEPT ![s] = @ + 1]
    /\ UNCHANGED << settings_url, reconnect, is_open, cfgVars, drain_due, pong_out, webVars, receiver_channel,
                    appVars, shutVars, taskVars, wireVars, hook_result, callVars,
                    sessions >>

(* native.rs:250-257  the hook returns and its result is sent on accept_tx *)
HookFinish(s, ok) ==
    /\ pc[s] = "handshake"
    /\ hook_result[s] = "running"
    /\ hook_result' = [hook_result EXCEPT ![s] = IF ok THEN "Ok" ELSE "Err"]
    /\ UNCHANGED << settings_url, reconnect, is_open, cfgVars, drain_due, pong_out, webVars, receiver_channel,
                    appVars, shutVars, taskVars, wireVars, hook_out, callVars,
                    sessions >>

\* the ? of native.rs:289 (wasm.rs:301) left out: any result counts as success
HookAccepted_Any(s) == TRUE

(* native.rs:262 and 289, wasm.rs:263 and 301  return result? and
   handshake(..).await?: only an Ok from the hook lets the dispatcher go on *)
HookAccepted(s) == hook_result[s] = "Ok"

(* native.rs:260-276  which arm of the handshake's select_biased! runs *)
HandshakeSelect(s) ==
    IF hook_result[s] \in {"Ok", "Err"} THEN "accept"
    ELSE IF hook_out[s] > 0 THEN "outbound"
    ELSE IF ws_in[s] # NoFrame THEN "inbound"
    ELSE "pending"

(* native.rs:261-263 and 289-291  the hook's result arrives: on success the
   dispatcher publishes Message::Open and enters its loop *)
HandshakeAccept(s) ==
    /\ adapter = "native"
    /\ pc[s] = "handshake"
    /\ HandshakeSelect(s) = "accept"
    /\ IF HookAccepted(s)
         THEN /\ pc' = [pc EXCEPT ![s] = "dispatch"]
              /\ receiver_channel' = Append(receiver_channel, "Open")
              /\ hook_result' = [hook_result EXCEPT ![s] = "none"]
              /\ hook_out' = [hook_out EXCEPT ![s] = 0]
              /\ UNCHANGED << is_open, ws_in, ws_closed >>
         ELSE /\ Exited(s)
              /\ UNCHANGED receiver_channel
    /\ UNCHANGED << settings_url, reconnect, cfgVars, drain_due, pong_out, webVars, appVars, shutVars, target_url, connect_trigger, frames, callVars, sessions >>

(* native.rs:264-268  a hook message is written to the transport *)
HandshakeOutbound(s, ok) ==
    /\ adapter = "native"
    /\ pc[s] = "handshake"
    /\ HandshakeSelect(s) = "outbound"
    /\ IF ok
         THEN /\ hook_out' = [hook_out EXCEPT ![s] = @ - 1]
              /\ UNCHANGED << pc, is_open, hook_result, ws_in, ws_closed >>
         ELSE Exited(s)
    /\ UNCHANGED << settings_url, reconnect, cfgVars, drain_due, pong_out, webVars, receiver_channel, appVars,
                    shutVars, target_url, connect_trigger, frames,
                    callVars, sessions >>

(* native.rs:269-275 with 40-51  a frame for the hook: Text, Binary and Close
   convert, any other frame panics in From<tungstenite::Message>; an error or
   the end of the stream is NegotiationFailure *)
HandshakeInbound(s) ==
    /\ adapter = "native"
    /\ pc[s] = "handshake"
    /\ HandshakeSelect(s) = "inbound"
    /\ IF ws_in[s] \in {"Data", "Close"}
         THEN /\ ws_in' = [ws_in EXCEPT ![s] = NoFrame]
              /\ ws_closed' = [ws_closed EXCEPT ![s] = @ \/ ws_in[s] = "Close"]
              /\ UNCHANGED << pc, is_open, hook_result, hook_out >>
         ELSE IF ws_in[s] \in Pings \cup {"Pong"}
         THEN /\ pc' = [pc EXCEPT ![s] = "panicked"]
              /\ ws_in' = [ws_in EXCEPT ![s] = NoFrame]
              /\ UNCHANGED << is_open, ws_closed, hook_result, hook_out >>
         ELSE Exited(s)
    /\ UNCHANGED << settings_url, reconnect, cfgVars, drain_due, pong_out, webVars, receiver_channel, appVars,
                    shutVars, target_url, connect_trigger, frames,
                    callVars, sessions >>

(* native.rs:294-341  which arm of the dispatcher's select_biased! runs *)
DispatchSelect(s) ==
    IF sender_channel # << >> THEN "outbound"
    ELSE IF ws_in[s] # NoFrame THEN "inbound"
    ELSE IF shutdown_request > 0 THEN "shutdown"
    ELSE "pending"

(* native.rs:295-306  an item of the sender channel is written to the
   transport; with an ack the result goes into the ack (a failed delivery
   returns from the dispatcher), without one a failed write returns *)
DispatchOutbound(s, ok) ==
    /\ adapter = "native"
    /\ pc[s] = "dispatch"
    /\ DispatchSelect(s) = "outbound"
    /\ sender_channel' = Tail(sender_channel)
    /\ LET ack == Head(sender_channel) IN
         IF ack # NoAck
           THEN IF ack_state[ack] = "live"
                  THEN /\ ack_result' = [ack_result EXCEPT ![ack] =
                                           Append(@, IF ok THEN "Ok" ELSE "Err")]
                       /\ UNCHANGED << pc, is_open, wireVars, hookVars >>
                  ELSE /\ Exited(s)
                       /\ UNCHANGED << ack_result, frames >>
           ELSE /\ UNCHANGED ack_result
                /\ IF ok
                     THEN UNCHANGED << pc, is_open, wireVars, hookVars >>
                     ELSE /\ Exited(s)
                          /\ UNCHANGED frames
    /\ UNCHANGED << settings_url, reconnect, cfgVars, drain_due, pong_out, webVars, receiver_channel, ack_state,
                    sent, shutVars, target_url, connect_trigger, callVars,
                    sessions >>

(* native.rs:311-316  Binary, Text and Close frames go to the receiver channel
   (as Text/Binary or as Message::Close); the loop goes on *)
Forwarded(f) == IF f = "Close" THEN "Close" ELSE "Data"

(* native.rs:317-318  TsMessage::Ping(data) => TsMessage::Pong(data) *)
PongData(f) == IF f = "Ping x" THEN "x" ELSE "y"

(* native.rs:307-335  a frame, an error or the end of the stream is read *)
DispatchInbound(s, ok) ==
    /\ adapter = "native"
    /\ pc[s] = "dispatch"
    /\ DispatchSelect(s) = "inbound"
    /\ LET f == ws_in[s] IN
         IF f \in {"Data", "Close"}
           THEN /\ ok
                /\ receiver_channel' =
                     Append(receiver_channel, Forwarded(f))
                /\ ws_in' = [ws_in EXCEPT ![s] = NoFrame]
                /\ ws_closed' = [ws_closed EXCEPT ![s] = @ \/ f = "Close"]
                /\ UNCHANGED << pc, is_open, hookVars, pong_out >>
         ELSE IF f \in Pings
           THEN /\ UNCHANGED receiver_channel
                /\ IF ok
                     THEN /\ pong_out' = Append(pong_out, PongData(f))
                          /\ ws_in' = [ws_in EXCEPT ![s] = NoFrame]
                          /\ UNCHANGED << pc, is_open, ws_closed, hookVars >>
                     ELSE /\ Exited(s)
                          /\ UNCHANGED pong_out
         ELSE IF f = "Pong"
           THEN /\ ok
                /\ ws_in' = [ws_in EXCEPT ![s] = NoFrame]
                /\ UNCHANGED << receiver_channel, pc, is_open, ws_closed, hookVars,
                                pong_out >>
         ELSE /\ ok
              /\ receiver_channel' = Append(receiver_channel, "Close")
              /\ Exited(s)
              /\ UNCHANGED pong_out
    /\ UNCHANGED << settings_url, reconnect, cfgVars, drain_due, webVars, appVars,
                    shutVars, target_url, connect_trigger, frames, callVars,
                    sessions >>

(* native.rs:336-340  a shutdown request: Close, the response, break *)
DispatchShutdown(s) ==
    /\ adapter = "native"
    /\ pc[s] = "dispatch"
    /\ DispatchSelect(s) = "shutdown"
    /\ receiver_channel' = Append(receiver_channel, "Close")
    /\ shutdown_request' = shutdown_request - 1
    /\ shutdown_response' = shutdown_response + 1
    /\ Exited(s)
    /\ UNCHANGED << settings_url, reconnect, cfgVars, drain_due, pong_out, webVars, appVars, close_waiting,
                    target_url, connect_trigger, frames, callVars,
                    sessions >>

(* ======================= the browser adapter (wasm.rs) ================== *)

nativeVars == << shutVars, target_url, ws_in, ws_closed >>

(* wasm.rs:157  if inner.is_some() { return Err(AlreadyInitialized) } *)
AlreadyInitialized == inner # 0

(* wasm.rs:161-229  connect_impl past its guard: reconnect, a new socket with
   its four callbacks, the inner slot, and the spawned task *)
ConnectImpl ==
    /\ Cardinality(Spawned) < MaxSup
    /\ LET s == Cardinality(Spawned) + 1 IN
         /\ reconnect' = TRUE
         /\ ready_state' = [ready_state EXCEPT ![s] = "CONNECTING"]
         /\ callbacks' = [callbacks EXCEPT ![s] = TRUE]
         /\ inner' = s
         /\ connect_trigger' = [connect_trigger EXCEPT ![s] = "armed"]

(* web_sys WebSocket.close(): a socket not yet closed starts closing *)
SocketClose(w) ==
    [ready_state EXCEPT ![w] = IF @ \in {"CONNECTING", "OPEN"} THEN "CLOSING" ELSE @]

(* wasm.rs:141-153  WebSocketInterface::connect *)
WasmConnect ==
    /\ adapter = "wasm"
    /\ calls < MaxCalls
    /\ calls' = calls + 1
    /\ UNCHANGED << cfgVars, drain_due, pong_out, settings_url, is_open, event_channel,
                    receiver_channel, appVars, nativeVars, hookVars, frames,
                    sessions >>
    /\ IF AlreadyInitialized
         THEN /\ last_call' = [op |-> "connect", ret |-> "AlreadyInitialized"]
              /\ UNCHANGED << reconnect, inner, ready_state, callbacks, pc,
                              connect_trigger >>
         ELSE /\ ConnectImpl
              /\ pc' = [pc EXCEPT ![Cardinality(Spawned) + 1] = "connecting"]
              /\ last_call' = [op |-> "connect", ret |-> "spawned"]

(* wasm.rs:367-377  the body of close() *)
WasmCloseBody ==
    /\ inner' = 0
    /\ ready_state' = IF inner # 0 THEN SocketClose(inner) ELSE ready_state

(* wasm.rs:367-377  WebSocketInterface::close *)
WasmClose ==
    /\ adapter = "wasm"
    /\ calls < MaxCalls
    /\ calls' = calls + 1
    /\ last_call' = [op |-> "close", ret |-> "Ok"]
    /\ WasmCloseBody
    /\ UNCHANGED << cfgVars, drain_due, pong_out, settings_url, reconnect, is_open,
                    event_channel, callbacks, receiver_channel, appVars,
                    nativeVars, pc, connect_trigger, hookVars, frames, sessions >>

(* wasm.rs:386-390  WebSocketInterface::disconnect *)
WasmDisconnect ==
    /\ adapter = "wasm"
    /\ calls < MaxCalls
    /\ calls' = calls + 1
    /\ last_call' = [op |-> "disconnect", ret |-> "Ok"]
    /\ reconnect' = FALSE
    /\ drain_due' = drain_due \cup LiveQueued
    /\ WasmCloseBody
    /\ UNCHANGED << pong_out, cfgVars, settings_url, is_open, event_channel, callbacks,
                    receiver_channel, appVars, nativeVars, pc, connect_trigger,
                    hookVars, frames, sessions >>

(* wasm.rs:185-190  onopen: the socket is open *)
BrowserOpen(w) ==
    /\ adapter = "wasm"
    /\ ready_state[w] = "CONNECTING"
    /\ ready_state' = [ready_state EXCEPT ![w] = "OPEN"]
    /\ event_channel' = IF callbacks[w] THEN Append(event_channel, "Open")
                        ELSE event_channel
    /\ UNCHANGED << cfgVars, drain_due, pong_out, settings_url, reconnect, is_open, inner,
                    callbacks, receiver_channel, appVars, nativeVars, taskVars,
                    hookVars, callVars, frames, sessions >>

(* wasm.rs:194-201  onclose: the connection failed, the peer closed it or a
   local close() completed *)
BrowserClose(w) ==
    /\ adapter = "wasm"
    /\ ready_state[w] \in {"CONNECTING", "OPEN", "CLOSING"}
    /\ ready_state' = [ready_state EXCEPT ![w] = "CLOSED"]
    /\ event_channel' = IF callbacks[w] THEN Append(event_channel, "Close")
                        ELSE event_channel
    /\ UNCHANGED << cfgVars, drain_due, pong_out, settings_url, reconnect, is_open, inner,
                    callbacks, receiver_channel, appVars, nativeVars, taskVars,
                    hookVars, callVars, frames, sessions >>

(* wasm.rs:169-174  onmessage: a text or binary message *)
BrowserMessage(w) ==
    /\ adapter = "wasm"
    /\ ready_state[w] = "OPEN"
    /\ callbacks[w]
    /\ frames < MaxFrames
    /\ frames' = frames + 1
    /\ event_channel' = Append(event_channel, "Data")
    /\ UNCHANGED << cfgVars, drain_due, pong_out, settings_url, reconnect, is_open, inner,
                    ready_state, callbacks, receiver_channel, appVars, nativeVars,
                    taskVars, hookVars, callVars, sessions >>

(* wasm.rs:217-227  dispatcher_task has returned: its connect_trigger is
   dropped; the task reads reconnect and either sleeps or ends *)
TaskAfterDispatcher(s) ==
    /\ pc' = [pc EXCEPT ![s] = IF reconnect THEN "sleep" ELSE "done"]
    /\ connect_trigger' = DropTrigger(s)

(* wasm.rs:302-308  after the handshake: is_open, the first-connect trigger,
   Message::Open to the receiver channel *)
WasmOpened(s) ==
    /\ is_open' = TRUE
    /\ connect_trigger' = IF connect_trigger[s] = "armed"
                            THEN [connect_trigger EXCEPT ![s] = "Ok"]
                            ELSE connect_trigger
    /\ receiver_channel' = Append(receiver_channel, "Open")
    /\ pc' = [pc EXCEPT ![s] = "dispatch"]

(* wasm.rs:293-318  the event_channel arm of select!: Text and Binary are
   forwarded; Open runs the handshake; Close clears is_open, removes the
   callbacks of the socket in the inner slot (cleanup_ws unwraps the slot),
   forwards Close and breaks *)
WasmEvent(s) ==
    /\ adapter = "wasm"
    /\ pc[s] \in {"connecting", "dispatch"}
    /\ event_channel # << >>
    /\ event_channel' = Tail(event_channel)
    /\ LET e == Head(event_channel) IN
         IF e = "Data"
           THEN /\ receiver_channel' = Append(receiver_channel, "Data")
                /\ UNCHANGED << is_open, callbacks, pc, connect_trigger, hook_result >>
         ELSE IF e = "Open"
           THEN /\ UNCHANGED callbacks
                /\ IF handshake
                     THEN /\ pc' = [pc EXCEPT ![s] = "handshake"]
                          /\ hook_result' = [hook_result EXCEPT ![s] = "running"]
                          /\ UNCHANGED << is_open, connect_trigger, receiver_channel >>
                     ELSE /\ WasmOpened(s)
                          /\ UNCHANGED hook_result
         ELSE /\ is_open' = FALSE
              /\ UNCHANGED hook_result
              /\ IF inner = 0
                   THEN /\ pc' = [pc EXCEPT ![s] = "panicked"]
                        /\ UNCHANGED << callbacks, receiver_channel, connect_trigger >>
                   ELSE /\ callbacks' = [callbacks EXCEPT ![inner] = FALSE]
                        /\ receiver_channel' = Append(receiver_channel, "Close")
                        /\ TaskAfterDispatcher(s)
    /\ UNCHANGED << cfgVars, drain_due, pong_out, settings_url, reconnect, inner, ready_state,
                    appVars, nativeVars, hook_out, callVars, frames, sessions >>

(* wasm.rs:402-413 with WebSocket.send(): a send on a socket that is still
   connecting throws; on a closing or closed socket it is discarded *)
TrySend(s) == IF ready_state[s] = "CONNECTING" THEN "Err" ELSE "Ok"

(* wasm.rs:320-342  the sender_channel arm of select!: the result goes into
   the ack when there is one, and a failure is logged *)
WasmOutbound(s) ==
    /\ adapter = "wasm"
    /\ pc[s] \in {"connecting", "dispatch"}
    /\ sender_channel # << >>
    /\ sender_channel' = Tail(sender_channel)
    /\ LET ack == Head(sender_channel) IN
         ack_result' = IF ack # NoAck /\ ack_state[ack] = "live"
                         THEN [ack_result EXCEPT ![ack] = Append(@, TrySend(s))]
                         ELSE ack_result
    /\ UNCHANGED << cfgVars, drain_due, pong_out, webVars, settings_url, reconnect, is_open,
                    receiver_channel, ack_state, sent, nativeVars, taskVars,
                    hookVars, callVars, frames, sessions >>

(* wasm.rs:261-276  which arm of the handshake's select_biased! runs *)
WasmHandshakeSelect(s) ==
    IF hook_result[s] \in {"Ok", "Err"} THEN "accept"
    ELSE IF hook_out[s] > 0 THEN "outbound"
    ELSE IF event_channel # << >> THEN "inbound"
    ELSE "pending"

(* wasm.rs:262-264 and 301-308  the hook's result arrives *)
WasmHandshakeAccept(s) ==
    /\ adapter = "wasm"
    /\ pc[s] = "handshake"
    /\ WasmHandshakeSelect(s) = "accept"
    /\ hook_result' = [hook_result EXCEPT ![s] = "none"]
    /\ hook_out' = [hook_out EXCEPT ![s] = 0]
    /\ IF HookAccepted(s)
         THEN WasmOpened(s)
         ELSE /\ TaskAfterDispatcher(s)
              /\ UNCHANGED << is_open, receiver_channel >>
    /\ UNCHANGED << cfgVars, drain_due, pong_out, webVars, settings_url, reconnect, appVars,
                    nativeVars, callVars, frames, sessions >>

(* wasm.rs:265-270  a hook message is handed to the socket *)
WasmHandshakeOutbound(s) ==
    /\ adapter = "wasm"
    /\ pc[s] = "handshake"
    /\ WasmHandshakeSelect(s) = "outbound"
    /\ IF TrySend(s) = "Ok"
         THEN /\ hook_out' = [hook_out EXCEPT ![s] = @ - 1]
              /\ UNCHANGED << pc, connect_trigger, hook_result >>
         ELSE /\ hook_out' = [hook_out EXCEPT ![s] = 0]
              /\ hook_result' = [hook_result EXCEPT ![s] = "none"]
              /\ TaskAfterDispatcher(s)
    /\ UNCHANGED << cfgVars, drain_due, pong_out, webVars, settings_url, reconnect, is_open,
                    receiver_channel, appVars, nativeVars, callVars, frames,
                    sessions >>

(* wasm.rs:271-275  an event of the event channel goes to the hook *)
WasmHandshakeInbound(s) ==
    /\ adapter = "wasm"
    /\ pc[s] = "handshake"
    /\ WasmHandshakeSelect(s) = "inbound"
    /\ event_channel' = Tail(event_channel)
    /\ UNCHANGED << cfgVars, drain_due, pong_out, inner, ready_state, callbacks, settings_url,
                    reconnect, is_open, receiver_channel, appVars, nativeVars,
                    taskVars, hookVars, callVars, frames, sessions >>

(* wasm.rs:223-226 with 378-385  after the sleep: reconnect(), i.e. close()
   and connect(false) *)
WasmReconnect(s) ==
    /\ adapter = "wasm"
    /\ pc[s] = "sleep"
    /\ Cardinality(Spawned) < MaxSup
    /\ LET n == Cardinality(Spawned) + 1 IN
         /\ reconnect' = TRUE
         /\ ready_state' = [(IF inner # 0 THEN SocketClose(inner) ELSE ready_state)
                              EXCEPT ![n] = "CONNECTING"]
         /\ callbacks' = [callbacks EXCEPT ![n] = TRUE]
         /\ inner' = n
         /\ connect_trigger' = [connect_trigger EXCEPT ![n] = "armed"]
         /\ pc' = [pc EXCEPT ![s] = "done", ![n] = "connecting"]
    /\ UNCHANGED << cfgVars, drain_due, pong_out, settings_url, is_open, event_channel,
                    receiver_channel, appVars, nativeVars, hookVars, callVars,
                    frames, sessions >>

(* ------------------------------ the system ----------------------------- *)

Next ==
    \/ SetUrl(OtherUrl)
    \/ \E o \in UrlOverrides : Connect(o)
    \/ Close
    \/ Disconnect
    \/ CloseReturn
    \/ \E k \in {"None", "live", "dropped"} : AppSend(k)
    \/ \E s \in Sup : ResolveFail(s)
    \/ \E s \in Sup : DialOk(s)
    \/ \E s \in Sup, k \in {"Err", "ConnectionTimeout"} : DialFail(s, k)
    \/ \E s \in Sup : LoopCheck(s)
    \/ \E s \in Sup, f \in WireFrames \cup StreamEnds : Peer(s, f)
    \/ \E s \in Sup : HookPush(s)
    \/ \E s \in Sup, ok \in BOOLEAN : HookFinish(s, ok)
    \/ \E s \in Sup : HandshakeAccept(s)
    \/ \E s \in Sup, ok \in BOOLEAN : HandshakeOutbound(s, ok)
    \/ \E s \in Sup : HandshakeInbound(s)
    \/ \E s \in Sup, ok \in BOOLEAN : DispatchOutbound(s, ok)
    \/ \E s \in Sup, ok \in BOOLEAN : DispatchInbound(s, ok)
    \/ \E s \in Sup : DispatchShutdown(s)
    \/ WasmConnect
    \/ WasmClose
    \/ WasmDisconnect
    \/ \E w \in Sup : BrowserOpen(w)
    \/ \E w \in Sup : BrowserClose(w)
    \/ \E w \in Sup : BrowserMessage(w)
    \/ \E s \in Sup : WasmEvent(s)
    \/ \E s \in Sup : WasmOutbound(s)
    \/ \E s \in Sup : WasmHandshakeAccept(s)
    \/ \E s \in Sup : WasmHandshakeOutbound(s)
    \/ \E s \in Sup : WasmHandshakeInbound(s)
    \/ \E s \in Sup : WasmReconnect(s)

Spec == Init /\ [][Next]_vars

(* ------------------- an application that keeps sending ----------------- *)

(* sender_channel.send((msg, None)) by an application that never stops
   sending: the sends are not counted, only the channel's capacity
   (Options.sender_channel_cap) holds them back *)
AppFlood ==
    /\ adapter = "native"
    /\ Len(sender_channel) < MaxSend
    /\ sender_channel' = Append(sender_channel, NoAck)
    /\ UNCHANGED << settings_url, reconnect, is_open, cfgVars, drain_due, pong_out,
                    webVars, receiver_channel, ack_state, ack_result, sent,
                    shutVars, taskVars, wireVars, hookVars, callVars, sessions >>

(* one step of a spawned task of the native adapter: the runtime polls a task
   that can make progress; which arm a dispatcher takes is decided by its
   select_biased! *)
TaskStep ==
    \E s \in Sup :
      \/ LoopCheck(s)
      \/ \E ok \in BOOLEAN : DispatchOutbound(s, ok)
      \/ \E ok \in BOOLEAN : DispatchInbound(s, ok)
      \/ DispatchShutdown(s)

(* the native interface, created without a handshake hook *)
InitFlood == Init /\ adapter = "native" /\ ~handshake

NextFlood ==
    \/ AppFlood
    \/ SetUrl(OtherUrl)
    \/ \E o \in UrlOverrides : Connect(o)
    \/ Close
    \/ Disconnect
    \/ CloseReturn
    \/ \E k \in {"None", "live", "dropped"} : AppSend(k)
    \/ \E s \in Sup : ResolveFail(s)
    \/ \E s \in Sup : DialOk(s)
    \/ \E s \in Sup, k \in {"Err", "ConnectionTimeout"} : DialFail(s, k)
    \/ \E s \in Sup : LoopCheck(s)
    \/ \E s \in Sup, f \in WireFrames \cup StreamEnds : Peer(s, f)
    \/ \E s \in Sup, ok \in BOOLEAN : DispatchOutbound(s, ok)
    \/ \E s \in Sup, ok \in BOOLEAN : DispatchInbound(s, ok)
    \/ \E s \in Sup : DispatchShutdown(s)

FloodSpec ==
    InitFlood /\ [][NextFlood]_vars /\ WF_vars(TaskStep) /\ WF_vars(CloseReturn)

(* ------------------------------ the claims ----------------------------- *)

RECURSIVE Count(_, _)
Count(seq, m) ==
    IF seq = << >> THEN 0
    ELSE (IF Head(seq) = m THEN 1 ELSE 0) + Count(Tail(seq), m)

\* the Open and Close messages of the receiver channel, in order
Lifecycle(log) == SelectSeq(log, LAMBDA m : m \in {"Open", "Close"})

\* no dispatcher is between its Open and its return
AllSessionsEnded == \A s \in Sup : pc[s] # "dispatch"

\* C1: on the receiver channel Open and Close are paired in order: no Close
\* without an unmatched Open before it, at most one Close per Open, and as many
\* Close as Open once every session has ended.
C1_OpenClosePaired ==
    LET L == Lifecycle(receiver_channel) IN
      /\ \A i \in 1..Len(L) :
           Count(SubSeq(L, 1, i), "Close") <= Count(SubSeq(L, 1, i), "Open")
      /\ \A i \in 1..(Len(L) - 1) : ~(L[i] = "Close" /\ L[i + 1] = "Close")
      /\ AllSessionsEnded => Count(L, "Close") = Count(L, "Open")

\* C2: whenever a dispatcher that has published Open stops running, a Close
\* has been published for its session (stated for a task running alone, where
\* the channel's last Open/Close message is that session's).
C2_OpenThenClose ==
    [][\A s \in Sup :
         (Alive = {s} /\ pc[s] = "dispatch" /\ pc'[s] # "dispatch")
           => LET L == Lifecycle(receiver_channel') IN L[Len(L)] = "Close"]_vars

\* a step in which the dispatcher of task s returns
DispatcherReturns(s) ==
    pc[s] \in {"handshake", "dispatch"} /\ pc'[s] \notin {"handshake", "dispatch"}

\* C3: every ack the application holds on to gets exactly one result: never
\* two, and never none: when a session is shut down, no item with such an ack
\* is left behind on the sender channel without its result.
C3_ExactlyOneAckResult ==
    [][/\ \A a \in AckIds : Len(ack_result'[a]) <= 1
       /\ \A s \in Sup : DispatcherReturns(s) => LiveQueued' = {}]_vars

\* C4: the acks that were queued when disconnect() was called are all
\* resolved, exactly once, by the time the supervisor has terminated.
C4_ShutdownDrainsAcks ==
    (Spawned # {} /\ Alive = {}) => \A a \in drain_due : Len(ack_result[a]) = 1

\* C5: is_open() is true exactly while a dispatcher is between handshake
\* success and the exit of its loop.
C5_IsOpenIffDispatching == is_open <=> (\E s \in Sup : pc[s] = "dispatch")

\* C6: at most one supervisor task is alive at any time.
C6_OneSupervisor == Cardinality(Alive) <= 1

\* a step that is a call of connect()
ConnectCalled == calls' = calls + 1 /\ last_call'.op = "connect"

\* C7: a connect() made while is_open is true (native) or while the inner slot
\* is occupied (browser) returns AlreadyConnected, respectively
\* AlreadyInitialized, spawns no task and leaves the reconnect flag, the
\* settings URL and the inner slot as they were.
C7_DoubleConnectRejected ==
    [][(ConnectCalled /\ IF adapter = "native" THEN is_open ELSE inner # 0) =>
         /\ last_call'.ret = IF adapter = "native" THEN "AlreadyConnected"
                                                   ELSE "AlreadyInitialized"
         /\ UNCHANGED << pc, connect_trigger, reconnect, settings_url, inner >>]_vars

\* a connect() has just been rejected on an open native interface
C7_Witness ==
    /\ last_call = [op |-> "connect", ret |-> "AlreadyConnected"]
    /\ is_open
    /\ \E s \in Sup : pc[s] = "dispatch"

\* C8: connect() without a URL in the settings returns MissingUrl when the
\* options carry no override (no panic, nothing spawned), and proceeds with
\* the override when they carry one.
C8_MissingUrl ==
    [][(ConnectCalled /\ settings_url = NoUrl) =>
         IF settings_url' = NoUrl
           THEN last_call'.ret = "MissingUrl" /\ pc' = pc
           ELSE /\ last_call'.ret = "spawned"
                /\ \E s \in Sup : /\ pc[s] = "idle"
                                  /\ pc'[s] = "dial"
                                  /\ target_url'[s] = settings_url']_vars

\* C9: a dial attempt uses the value settings.url holds when it begins.
C9_AttemptUsesCurrentUrl ==
    [][\A s \in Sup :
         (pc[s] # "dial" /\ pc'[s] = "dial") => target_url'[s] = settings_url']_vars

\* C10: under Retry with reconnect set, a failed attempt leaves the supervisor
\* alive and waiting for the next attempt, and publishes nothing.
C10_RetryKeepsSupervisor ==
    [][\A s \in Sup :
         (options.strategy = "Retry" /\ reconnect /\ pc[s] = "dial"
            /\ pc'[s] \notin {"dial", "handshake", "dispatch"})
           => pc'[s] = "sleep" /\ receiver_channel' = receiver_channel]_vars

C12_OneShotFiredOnce ==
    [][\A s \in Sup :
         connect_trigger[s] \in {"Ok", "Err", "ConnectionTimeout"}
           => connect_trigger'[s] = connect_trigger[s]]_vars

\* one supervisor signalled success, reconnected successfully a second time
\* and then ended on a failed attempt under Fallback: the caller still has Ok
C12_Witness ==
    /\ options = [block_async_connect |-> TRUE, strategy |-> "Fallback"]
    /\ sessions = 2
    /\ reconnect
    /\ Spawned = {1}
    /\ pc[1] = "done"
    /\ connect_trigger[1] = "Ok"

\* C13: a failed handshake hook is handled like a dial error: the step that
\* takes the hook's failure terminates the supervisor under Fallback and puts
\* it to sleep for retry_interval under Retry, and publishes no Open.
C13_HandshakeFailureLikeDialError ==
    [][\A s \in Sup :
         (adapter = "native" /\ pc[s] = "handshake" /\ hook_result[s] = "Err"
            /\ pc'[s] # "handshake")
           => /\ pc'[s] = IF options.strategy = "Fallback" THEN "done" ELSE "sleep"
              /\ receiver_channel' = receiver_channel]_vars

\* a step in which the handshake hook of task s is invoked
HookStarts(s) == hook_result[s] # "running" /\ hook_result'[s] = "running"

\* a step in which the transport of task s becomes open: the dial returns the
\* stream (native), the task takes the socket's Open event (browser)
TransportOpens(s) ==
    IF adapter = "native"
      THEN pc[s] = "dial" /\ pc'[s] \in {"handshake", "dispatch"}
      ELSE /\ pc[s] \in {"connecting", "dispatch"} /\ pc'[s] # pc[s]
           /\ event_channel # << >> /\ Head(event_channel) = "Open"
           /\ event_channel' = Tail(event_channel)

\* C14: with a handshake hook installed, the hook is invoked once for every
\* opening of the transport and only then; Open is published only in the step
\* that takes the hook's success; and while the hook of a session has not
\* completed, nothing is published on the receiver channel for that session.
C14_OpenAfterHook ==
    [][handshake =>
         /\ \A s \in Sup : HookStarts(s) <=> TransportOpens(s)
         /\ Count(receiver_channel', "Open") # Count(receiver_channel, "Open")
              => \E s \in Sup : /\ pc[s] = "handshake" /\ hook_result[s] = "Ok"
                                /\ pc'[s] = "dispatch"
         /\ \A s \in Sup :
              (Alive = {s} /\ pc[s] = "handshake" /\ hook_result[s] = "running")
                => receiver_channel' = receiver_channel]_vars

\* a session whose hook succeeded after a frame had arrived for it: Open is
\* the only message published
C14_Witness ==
    /\ handshake
    /\ adapter = "native"
    /\ pc[1] = "dispatch"
    /\ sessions = 1
    /\ frames = 1
    /\ ws_in[1] = NoFrame
    /\ receiver_channel = << "Open" >>

\* an inbound frame (native) or socket event (browser) is ready for task s
InboundReady(s) ==
    IF adapter = "native" THEN ws_in[s] # NoFrame ELSE event_channel # << >>

\* a step in which that inbound item is processed while the sender channel
\* is left as it is
InboundTaken(s) ==
    /\ sender_channel' = sender_channel
    /\ IF adapter = "native" THEN ws_in'[s] = NoFrame
                             ELSE event_channel' = Tail(event_channel)

\* C15: on both adapters a dispatcher that has an outbound item and an inbound
\* frame ready processes the outbound item first, and one that has an inbound
\* frame and a shutdown request ready processes the inbound frame first.
C15_BiasedDispatch ==
    [][\A s \in Sup :
         (Alive = {s} /\ pc[s] = "dispatch" /\ InboundReady(s))
           => /\ sender_channel # << >> => ~InboundTaken(s)
              /\ shutdown_request > 0 => shutdown_request' >= shutdown_request]_vars

\* a step in which task s takes a Ping frame from the transport
PingTaken(s) == ws_in[s] \in Pings /\ ws_in'[s] # ws_in[s]

\* C16: every Ping taken from the transport during a session makes the task
\* write exactly one Pong with the same payload (unless that write fails, which
\* ends the session), publishes nothing and has no other effect; a Pong taken
\* from the transport is dropped without any output.
C16_PingPong ==
    [][\A s \in Sup :
         /\ (pc[s] \in {"handshake", "dispatch"} /\ PingTaken(s)) =>
               /\ receiver_channel' = receiver_channel
               /\ \/ pong_out' = Append(pong_out, PongData(ws_in[s])) /\ pc'[s] = pc[s]
                  \/ pong_out' = pong_out /\ pc'[s] = "check"
         /\ (pc[s] \in {"handshake", "dispatch"} /\ ws_in[s] = "Pong"
               /\ ws_in'[s] # ws_in[s]) =>
               /\ receiver_channel' = receiver_channel
               /\ pong_out' = pong_out
               /\ pc'[s] \in {pc[s], "check"}]_vars

\* C17: with an application that enqueues only Text and Binary messages, no
\* API call and no task panics.
C17_NoPanic ==
    /\ last_call.ret # "panic"
    /\ \A s \in Sup : pc[s] # "panicked"

\* a step in which the dispatcher of task s leaves an open session because of
\* close(): it takes the shutdown request (native); it takes the Close event
\* of the socket that close() closed and removed from the inner slot (browser)
ClosedSessionEnds(s) ==
    /\ pc[s] = "dispatch" /\ pc'[s] # "dispatch"
    /\ IF adapter = "native"
         THEN shutdown_request' < shutdown_request
         ELSE /\ Alive = {s} /\ inner = 0 /\ reconnect
              /\ event_channel # << >> /\ Head(event_channel) = "Close"
              /\ event_channel' = Tail(event_channel)

\* C18: close() leaves the reconnect flag as it is and only disconnect() clears
\* it; the open session that close() ends publishes Close and its supervisor
\* goes on to the reconnect decision (a new attempt while reconnect is true).
C18_CloseKeepsReconnect ==
    [][/\ (calls' = calls + 1 /\ last_call'.op = "close") => reconnect' = reconnect
       /\ (reconnect /\ ~reconnect') =>
             (calls' = calls + 1 /\ last_call'.op = "disconnect")
       /\ \A s \in Sup : ClosedSessionEnds(s) =>
             /\ receiver_channel' = Append(receiver_channel, "Close")
             /\ pc'[s] \in {"check", "sleep", "done"}
             /\ reconnect => pc'[s] # "done"]_vars

\* disconnect() was the last API call and has returned
DisconnectReturned == last_call.op = "disconnect" /\ close_waiting = 0

\* C19: once disconnect() has returned, and as long as no other API call is
\* made, the reconnect flag stays false, no Open is published and is_open does
\* not become true.
C19_DisconnectIsTerminal ==
    [][(DisconnectReturned /\ calls' = calls) =>
         /\ ~reconnect'
         /\ Count(receiver_channel', "Open") = Count(receiver_channel, "Open")
         /\ is_open' => is_open]_vars

\* C20: with strategy Retry and block_async_connect, connect() is either still
\* waiting or has returned Ok after a successful dial: it never returns, with
\* Ok or with an error, while every attempt so far has failed.
C20_RetryBlocksUntilConnected ==
    (adapter = "native" /\ options.strategy = "Retry" /\ options.block_async_connect)
      => \A s \in Spawned :
           /\ ConnectReturn(s) \in {"pending", "Ok"}
           /\ ConnectReturn(s) = "Ok" => sessions > 0

\* a step in which the dispatcher of task s takes a close from the transport:
\* a Close frame (native), the socket's Close event (browser)
CloseFrameTaken(s) ==
    /\ pc[s] = "dispatch"
    /\ InboundReady(s) /\ InboundTaken(s)
    /\ IF adapter = "native" THEN ws_in[s] = "Close"
                             ELSE Alive = {s} /\ Head(event_channel) = "Close"

\* C21: the dispatcher that takes a close frame from the transport publishes
\* Close and leaves its loop in that step, so that it dequeues no further item
\* and reads no further frame.
C21_PeerCloseTerminates ==
    [][\A s \in Sup : CloseFrameTaken(s) =>
         /\ receiver_channel' = Append(receiver_channel, "Close")
         /\ pc'[s] \in {"check", "sleep", "done"}]_vars

\* C22: dequeuing a sender-channel item never ends the session, whether its
\* transport write succeeds or fails: an item with an ack the application
\* still holds gets the one result in its ack, an item without one leaves no
\* trace, and the dispatcher stays in its loop.
C22_FailedWriteNotFatal ==
    [][\A s \in Sup :
         (/\ Alive = {s} /\ pc[s] = "dispatch"
          /\ sender_channel # << >> /\ sender_channel' = Tail(sender_channel)
          /\ Head(sender_channel) # NoAck => ack_state[Head(sender_channel)] = "live")
           => /\ pc'[s] = "dispatch"
              /\ LET a == Head(sender_channel) IN
                   a # NoAck => Len(ack_result'[a]) = Len(ack_result[a]) + 1]_vars

\* C23: a dispatcher that is in its loop with a shutdown request pending does
\* not stay in the loop for ever, even when the application keeps enqueuing
\* outbound messages (it takes the request, or it leaves for another reason).
C23_ShutdownNotStarved ==
    \A s \in Sup :
      (adapter = "native" /\ pc[s] = "dispatch" /\ shutdown_request > 0)
        ~> (pc[s] # "dispatch")

\* C24: an item is dequeued from the application's sender channel only by a
\* dispatcher whose transport is open and whose handshake has succeeded.
C24_MultiplexAfterHandshake ==
    [][(sender_channel # << >> /\ sender_channel' = Tail(sender_channel))
         => \E s \in Sup : pc[s] = "dispatch"]_vars

\* C25: with a handshake hook installed, a blocking connect() has returned Ok
\* only if a session has got past its handshake (its Open was published).
C25_OkMeansHandshakeDone ==
    \A s \in Spawned :
      (handshake /\ options.block_async_connect /\ ConnectReturn(s) = "Ok")
        => Count(receiver_channel, "Open") > 0

\* C26: when the handshake loop returns with the hook's success, every
\* message the hook pushed to its outbound channel has been written to the
\* transport: none is still queued.
C26_NoHandshakeOutputLost ==
    [][\A s \in Sup :
         (pc[s] = "handshake" /\ hook_result[s] = "Ok" /\ pc'[s] = "dispatch")
           => hook_out[s] = 0]_vars

\* C27: when a dispatcher returns, however it returns, no shutdown request is
\* left queued for the next session, every close() that is waiting has its
\* response (so that it returns), and no response is left over for a later
\* close().
C27_NoStaleShutdown ==
    [][\A s \in Sup :
         (Alive = {s} /\ DispatcherReturns(s))
           => /\ shutdown_request' = 0
              /\ shutdown_response' = close_waiting']_vars

\* a step in which the handshake loop of task s is handed the end of its
\* transport: the stream's error or end (native), the Close event of its
\* closed socket (browser)
TransportEndInHandshake(s) ==
    /\ pc[s] = "handshake"
    /\ IF adapter = "native"
         THEN ws_in[s] \in StreamEnds /\ ws_in'[s] # ws_in[s]
         ELSE /\ Alive = {s} /\ ready_state[s] = "CLOSED"
              /\ event_channel # << >> /\ Head(event_channel) = "Close"
              /\ event_channel' = Tail(event_channel)

\* C28: on both adapters the handshake loop that is handed the end of the
\* transport returns in that step, and the task goes on to its reconnect
\* decision, instead of waiting on for the hook.
C28_HandshakeEndsWithTransport ==
    [][\A s \in Sup : TransportEndInHandshake(s) =>
         pc'[s] \in {"check", "sleep", "done"}]_vars

====
